---- MODULE Spec2Model ----
(***************************************************************************)
(* chessbyte/website: a CDK stack (certificate, bucket, CloudFront          *)
(* distribution, two Route 53 alias records), the documented deployment    *)
(* commands (cdk deploy, aws s3 sync) and the Markdown content build.      *)
(***************************************************************************)
EXTENDS Integers, Sequences, FiniteSets, TLC

VARIABLES
    hostedZones,  \* hosted zones that exist in the account (pre-existing)
    pc,           \* position of the operator's cdk command: idle/applying/synth_failed,
                  \* destroying/delete_failed/destroyed
    template,     \* resource graph produced by the last synthesis
    deployed,     \* logical id -> properties of the live resource, or NoResource
    pending,      \* logical ids whose creation is in progress
    records,      \* DNS records in the hosted zones
    outputs,      \* stack outputs of the last finished apply
    applies,      \* number of finished applies
    content,      \* slug -> front-matter fields of the Markdown document
    buildStatus,  \* result of the last content build
    local,        \* the operator's directories ./public and ./dist
    remote,       \* objects of the website bucket
    clock,        \* wall clock, in file-timestamp units
    ops,          \* <<previous, last>> operation on the directories or the bucket
    response      \* the last request made by a client, with its response

vars == <<hostedZones, pc, template, deployed, pending, records, outputs, applies,
          content, buildStatus, local, remote, clock, ops, response>>

infraVars == <<hostedZones, pc, template, deployed, pending, records, outputs, applies>>
siteVars == <<content, buildStatus, local, remote, clock, ops>>

(***************************************************************************)
(* Bounds                                                                  *)
(***************************************************************************)
MaxApplies == 2   \* cdk deploy runs
MaxClock == 3     \* clock ticks (each build or sync takes one)
MaxMtime == 1     \* largest timestamp of a file or object drawn as an input

NoResource == [type |-> "none"]
NoTemplate == [t \in {} |-> NoResource]
NoOutputs == [o \in {} |-> ""]
NoResponse == [via |-> "none"]
EmptyDir == [k \in {} |-> [body |-> "", mtime |-> 0]]

(***************************************************************************)
(* bin/website.ts and lib/website-stack.ts: the declaration                *)
(***************************************************************************)
domainName == "chessbyte.com"

stackId == "ChessbyteWebsite"

\* The cdk.App of one run of bin/website.ts, and the props it passes.
App(run) == [node |-> "App", run |-> run]

StackProps == [env |-> [account |-> "CDK_DEFAULT_ACCOUNT", region |-> "us-east-1"]]

\* route53.HostedZone.fromLookup: the zones of the account with that name.
HostedZoneFromLookup(name) == {z \in hostedZones : z.zoneName = name}

\* a certificate requested for the apex name alone
CertificateApexOnly(hostedZone, props) ==
    [type |-> "Certificate",
     domainName |-> domainName,
     subjectAlternativeNames |-> <<>>,
     validation |-> [method |-> "DNS", hostedZone |-> hostedZone.id],
     region |-> props.env.region]

\* acm.Certificate
Certificate(hostedZone, props) ==
    [type |-> "Certificate",
     domainName |-> domainName,
     subjectAlternativeNames |-> <<"www." \o domainName>>,
     validation |-> [method |-> "DNS", hostedZone |-> hostedZone.id],
     region |-> props.env.region]

\* a bucket name derived from the current time instead of the construct path
WebsiteBucketTimestamped(scope, id) ==
    [type |-> "Bucket",
     bucketName |-> id \o "-websitebucket-" \o ToString(scope.run),
     publicReadAccess |-> FALSE,
     removalPolicy |-> "DESTROY",
     autoDeleteObjects |-> TRUE]

\* a bucket declared with the defaults: retained on removal, objects not deleted
WebsiteBucketRetained(scope, id) ==
    [type |-> "Bucket",
     bucketName |-> id \o "-websitebucket",
     publicReadAccess |-> FALSE,
     removalPolicy |-> "RETAIN",
     autoDeleteObjects |-> FALSE]

\* s3.Bucket; its physical name is generated from the construct path
WebsiteBucket(scope, id) ==
    [type |-> "Bucket",
     bucketName |-> id \o "-websitebucket",
     publicReadAccess |-> FALSE,
     removalPolicy |-> "DESTROY",
     autoDeleteObjects |-> TRUE]

\* a public bucket as S3 origin, with no origin access control
PublicBucketOrigin(bucket) == [bucket |-> bucket, access |-> "public"]

\* origins.S3BucketOrigin.withOriginAccessControl(websiteBucket)
S3BucketOriginWithOriginAccessControl(bucket) == [bucket |-> bucket, access |-> "OAC"]

\* a viewer protocol policy that serves plaintext requests
ViewerProtocolPolicyAllowAll == "allow-all"

ViewerProtocolPolicy == "redirect-to-https"

\* a distribution that is given no certificate
DistributionCertificateNone == "none"

DistributionCertificate == "Certificate"

ErrorResponses ==
    <<[httpStatus |-> 404, responseHttpStatus |-> 404, responsePagePath |-> "/404.html"]>>

\* cloudfront.Distribution
Distribution ==
    [type |-> "Distribution",
     origin |-> S3BucketOriginWithOriginAccessControl("WebsiteBucket"),
     viewerProtocolPolicy |-> ViewerProtocolPolicy,
     domainNames |-> <<domainName, "www." \o domainName>>,
     certificate |-> DistributionCertificate,
     defaultRootObject |-> "index.html",
     errorResponses |-> ErrorResponses]

\* the resource S3BucketOrigin.withOriginAccessControl adds for the distribution
OriginAccessControl == [type |-> "OriginAccessControl", signing |-> "sigv4-always"]

\* The statements of the bucket policy: the origin's grant to the distribution
\* (read level only: s3:GetObject) and the grant autoDeleteObjects makes to its
\* custom-resource role.  A public origin needs a grant to everyone instead.
BucketPolicyStatements(origin, bucket) ==
    (IF origin.access = "OAC"
       THEN {[principal |-> "cloudfront.amazonaws.com",
              actions |-> {"s3:GetObject"},
              sourceArn |-> "Distribution"]}
       ELSE {[principal |-> "*", actions |-> {"s3:GetObject"}, sourceArn |-> "any"]})
    \cup
    (IF bucket.autoDeleteObjects
       THEN {[principal |-> "AutoDeleteObjectsRole",
              actions |-> {"s3:DeleteObject*", "s3:GetBucket*", "s3:List*",
                           "s3:PutBucketPolicy"},
              sourceArn |-> "any"]}
       ELSE {})

WebsiteBucketPolicy(origin, bucket) ==
    [type |-> "BucketPolicy",
     bucket |-> origin.bucket,
     statements |-> BucketPolicyStatements(origin, bucket)]

\* route53.ARecord 'AliasRecord': no recordName, so the zone apex
AliasRecord(hostedZone) ==
    [type |-> "ARecord", zone |-> hostedZone.id, zoneName |-> hostedZone.zoneName,
     recordName |-> "", target |-> [alias |-> "Distribution"]]

\* the www record declared without its recordName
WwwAliasRecordNoName(hostedZone) ==
    [type |-> "ARecord", zone |-> hostedZone.id, zoneName |-> hostedZone.zoneName,
     recordName |-> "", target |-> [alias |-> "Distribution"]]

\* route53.ARecord 'WwwAliasRecord'
WwwAliasRecord(hostedZone) ==
    [type |-> "ARecord", zone |-> hostedZone.id, zoneName |-> hostedZone.zoneName,
     recordName |-> "www", target |-> [alias |-> "Distribution"]]

\* cdk.CfnOutput: each output and the resource attribute it reads ("" for a literal)
CfnOutputs ==
    [BucketName |-> [ref |-> "WebsiteBucket", attr |-> "bucketName"],
     DistributionDomain |-> [ref |-> "Distribution", attr |-> "distributionDomainName"],
     DistributionId |-> [ref |-> "Distribution", attr |-> "distributionId"],
     WebsiteUrl |-> [ref |-> "", attr |-> "https://" \o domainName]]

\* new WebsiteStack(scope, id, props): the resource graph of the constructor
WebsiteStack(scope, id, props) ==
    LET hostedZone == CHOOSE z \in HostedZoneFromLookup(domainName) : TRUE
    IN [r \in {"Certificate", "WebsiteBucket", "OriginAccessControl", "Distribution",
               "WebsiteBucketPolicy", "AliasRecord", "WwwAliasRecord"} |->
           CASE r = "Certificate" -> Certificate(hostedZone, props)
             [] r = "WebsiteBucket" -> WebsiteBucket(scope, id)
             [] r = "OriginAccessControl" -> OriginAccessControl
             [] r = "Distribution" -> Distribution
             [] r = "WebsiteBucketPolicy" ->
                    WebsiteBucketPolicy(Distribution.origin, WebsiteBucket(scope, id))
             [] r = "AliasRecord" -> AliasRecord(hostedZone)
             [] r = "WwwAliasRecord" -> WwwAliasRecord(hostedZone)]

LogicalIds == {"Certificate", "WebsiteBucket", "OriginAccessControl", "Distribution",
               "WebsiteBucketPolicy", "AliasRecord", "WwwAliasRecord"}

\* The resources a declaration refers to: the edges of the dependency graph.
Refs(res) ==
    CASE res.type = "Distribution" ->
             {res.origin.bucket}
             \cup (IF res.certificate = "none" THEN {} ELSE {res.certificate})
             \cup (IF res.origin.access = "OAC" THEN {"OriginAccessControl"} ELSE {})
      [] res.type = "BucketPolicy" ->
             {res.bucket} \cup ({s.sourceArn : s \in res.statements} \cap LogicalIds)
      [] res.type = "ARecord" -> {res.target.alias}
      [] OTHER -> {}

(***************************************************************************)
(* cdk deploy: synthesis, then the provisioning engine's steps             *)
(***************************************************************************)
\* The zones the account may hold before the stack is first deployed.
Zones == {[id |-> "Z1", zoneName |-> domainName], [id |-> "Z2", zoneName |-> "other.net"]}

\* Attributes the provider generates for a live resource.
Attr(r, attr) ==
    CASE attr = "bucketName" -> deployed[r].bucketName
      [] attr = "distributionDomainName" -> "d111111abcdef8.cloudfront.net"
      [] attr = "distributionId" -> "E1111111111111"

\* Name of a record in its zone: the apex when no recordName is given.
RecordFqdn(rec) ==
    IF rec.recordName = "" THEN rec.zoneName ELSE rec.recordName \o "." \o rec.zoneName

\* The names a certificate covers.
CertificateNames(cert) ==
    {cert.domainName}
    \cup {cert.subjectAlternativeNames[i] : i \in DOMAIN cert.subjectAlternativeNames}

\* The CNAME records DNS validation inserts into the hosted zone, one per name.
ValidationRecords(cert) ==
    {[zone |-> cert.validation.hostedZone, name |-> "_acm." \o n, type |-> "CNAME",
      value |-> "acm-validations.aws"] : n \in CertificateNames(cert)}

\* Resources whose live properties differ from the template.
ChangeSet(t) == {r \in DOMAIN t : deployed[r] # t[r]}

\* Upsert of a record set (one per zone, name and type).
PutRecord(rs, rec) ==
    {x \in rs : ~(x.zone = rec.zone /\ x.name = rec.name /\ x.type = rec.type)} \cup {rec}

\* cdk deploy: run bin/website.ts (the zone lookup fails the synthesis when no
\* zone has the name), then hand the changes to the engine; nothing to change
\* finishes the deploy at once.
CdkDeploy ==
    /\ pc \in {"idle", "synth_failed"}
    /\ applies < MaxApplies
    /\ IF HostedZoneFromLookup(domainName) = {}
         THEN /\ pc' = "synth_failed"
              /\ UNCHANGED <<template, applies>>
         ELSE LET t == WebsiteStack(App(applies), stackId, StackProps)
              IN /\ template' = t
                 /\ IF ChangeSet(t) = {}
                      THEN pc' = "idle" /\ applies' = applies + 1
                      ELSE pc' = "applying" /\ applies' = applies
    /\ UNCHANGED <<hostedZones, deployed, pending, records, outputs>>
    /\ UNCHANGED <<siteVars, response>>

Ready(r) ==
    /\ pc = "applying"
    /\ r \in ChangeSet(template)
    /\ \A d \in Refs(template[r]) : deployed[d] = template[d]

\* The engine requests the certificate; DNS validation inserts its records.
RequestCertificate ==
    /\ Ready("Certificate")
    /\ "Certificate" \notin pending
    /\ pending' = pending \cup {"Certificate"}
    /\ records' = records \cup ValidationRecords(template["Certificate"])
    /\ UNCHANGED <<hostedZones, pc, template, deployed, outputs, applies>>
    /\ UNCHANGED <<siteVars, response>>

\* The certificate is issued once its validation records are in the zone.
IssueCertificate ==
    /\ pc = "applying"
    /\ "Certificate" \in pending
    /\ ValidationRecords(template["Certificate"]) \subseteq records
    /\ deployed' = [deployed EXCEPT !["Certificate"] = template["Certificate"]]
    /\ pending' = pending \ {"Certificate"}
    /\ UNCHANGED <<hostedZones, pc, template, records, outputs, applies>>
    /\ UNCHANGED <<siteVars, response>>

\* The engine creates the bucket (a replaced bucket starts empty).
CreateBucket ==
    /\ Ready("WebsiteBucket")
    /\ deployed' = [deployed EXCEPT !["WebsiteBucket"] = template["WebsiteBucket"]]
    /\ remote' = EmptyDir
    /\ ops' = <<ops[2], "createBucket">>
    /\ UNCHANGED <<hostedZones, pc, template, pending, records, outputs, applies>>
    /\ UNCHANGED <<content, buildStatus, local, clock, response>>

\* The engine creates the origin access control, the distribution or the policy.
CreateResource(r) ==
    /\ r \in {"OriginAccessControl", "Distribution", "WebsiteBucketPolicy"}
    /\ Ready(r)
    /\ deployed' = [deployed EXCEPT ![r] = template[r]]
    /\ UNCHANGED <<hostedZones, pc, template, pending, records, outputs, applies>>
    /\ UNCHANGED <<siteVars, response>>

\* The engine creates an alias record: a record set in the zone whose target is
\* the live distribution's domain name.
CreateAliasRecord(r) ==
    /\ r \in {"AliasRecord", "WwwAliasRecord"}
    /\ Ready(r)
    /\ deployed' = [deployed EXCEPT ![r] = template[r]]
    /\ records' = PutRecord(records,
                     [zone |-> template[r].zone, name |-> RecordFqdn(template[r]),
                      type |-> "A",
                      value |-> Attr(template[r].target.alias, "distributionDomainName")])
    /\ UNCHANGED <<hostedZones, pc, template, pending, outputs, applies>>
    /\ UNCHANGED <<siteVars, response>>

\* The engine finishes the apply and resolves the outputs.
FinishApply ==
    /\ pc = "applying"
    /\ ChangeSet(template) = {}
    /\ outputs' = [o \in DOMAIN CfnOutputs |->
                      IF CfnOutputs[o].ref = "" THEN CfnOutputs[o].attr
                      ELSE Attr(CfnOutputs[o].ref, CfnOutputs[o].attr)]
    /\ pc' = "idle"
    /\ applies' = applies + 1
    /\ UNCHANGED <<hostedZones, template, deployed, pending, records>>
    /\ UNCHANGED <<siteVars, response>>

(***************************************************************************)
(* Requests of clients                                                     *)
(***************************************************************************)
Keys == {"index.html", "404.html", "nope.html",
         "blog/building-this-site/index.html", "blog/zooming-in-and-out/index.html"}

\* The object key a URL path names.
KeyOf(path) == CHOOSE k \in Keys : "/" \o k = path

\* Whether a policy's action pattern covers an action.
ActionMatches(pattern, action) ==
    \/ pattern = action
    \/ pattern = "s3:List*" /\ action = "s3:ListBucket"

\* Whether the live bucket policy lets the principal do the action; a request
\* signed for a distribution carries that distribution as its source.
Granted(principal, source, action) ==
    /\ deployed["WebsiteBucketPolicy"] # NoResource
    /\ \E s \in deployed["WebsiteBucketPolicy"].statements :
          /\ s.principal \in {principal, "*"}
          /\ s.sourceArn \in {source, "any"}
          /\ \E a \in s.actions : ActionMatches(a, action)

\* S3 GetObject: without s3:ListBucket a missing key is reported as 403, not 404.
S3GetObject(principal, source, key) ==
    IF ~Granted(principal, source, "s3:GetObject") THEN [status |-> 403, body |-> ""]
    ELSE IF key \in DOMAIN remote THEN [status |-> 200, body |-> remote[key].body]
    ELSE IF Granted(principal, source, "s3:ListBucket") THEN [status |-> 404, body |-> ""]
    ELSE [status |-> 403, body |-> ""]

\* The distribution's fetch from its origin.
OriginFetch(dist, key) ==
    IF dist.origin.access = "OAC"
      THEN S3GetObject("cloudfront.amazonaws.com", "Distribution", key)
      ELSE S3GetObject("anonymous", "none", key)

\* errorResponses: an origin error with a configured status is answered with the
\* response page and status, when the page can be fetched.
ApplyErrorResponses(dist, origin) ==
    LET hits == {i \in DOMAIN dist.errorResponses :
                    dist.errorResponses[i].httpStatus = origin.status}
    IN IF hits = {} THEN origin
       ELSE LET e == dist.errorResponses[CHOOSE i \in hits : \A j \in hits : i <= j]
                page == OriginFetch(dist, KeyOf(e.responsePagePath))
            IN IF page.status = 200
                 THEN [status |-> e.responseHttpStatus, body |-> page.body]
                 ELSE origin

\* The distribution's answer to a viewer request.
DistributionServe(dist, proto, host, path) ==
    IF \A i \in DOMAIN dist.domainNames : dist.domainNames[i] # host
      THEN [status |-> 403, body |-> "", location |-> ""]
    ELSE IF proto = "http" /\ dist.viewerProtocolPolicy = "redirect-to-https"
      THEN [status |-> 301, body |-> "", location |-> "https://" \o host \o path]
    ELSE LET key == IF path = "/" THEN dist.defaultRootObject ELSE KeyOf(path)
             origin == OriginFetch(dist, key)
             r == IF origin.status = 200 THEN origin ELSE ApplyErrorResponses(dist, origin)
         IN [status |-> r.status, body |-> r.body, location |-> ""]

\* A viewer's request: the name resolves through the zone's alias record to the
\* distribution; status 0 stands for a name that does not resolve.
ViewerRequest(proto, host, path) ==
    IF /\ deployed["Distribution"] # NoResource
       /\ \E rec \in records :
             /\ rec.name = host /\ rec.type = "A"
             /\ rec.value = Attr("Distribution", "distributionDomainName")
      THEN DistributionServe(deployed["Distribution"], proto, host, path)
      ELSE [status |-> 0, body |-> "", location |-> ""]

Protocols == {"http", "https"}
Hosts == {domainName, "www." \o domainName}
Paths == {"/", "/nope.html"}
DirectKeys == {"index.html", "nope.html"}

\* A viewer requests a URL of the site.
Request ==
    /\ \E proto \in Protocols, host \in Hosts, path \in Paths :
          response' = [via |-> "viewer", proto |-> proto, host |-> host, path |-> path,
                       result |-> ViewerRequest(proto, host, path)]
    /\ UNCHANGED <<infraVars, siteVars>>

\* An anonymous client requests an object at the bucket's own endpoint.
DirectRequest ==
    /\ deployed["WebsiteBucket"] # NoResource
    /\ \E key \in DirectKeys :
          response' = [via |-> "s3", key |-> key,
                       result |-> S3GetObject("anonymous", "none", key)]
    /\ UNCHANGED <<infraVars, siteVars>>

(***************************************************************************)
(* The content build (npm run build)                                       *)
(***************************************************************************)
Slugs == {"building-this-site", "zooming-in-and-out"}

\* The front matter of the two posts of src/content/blog.
Posts ==
    [s \in Slugs |->
        IF s = "building-this-site" THEN {"title", "description", "pubDate"}
        ELSE {"title", "description", "pubDate", "heroImage", "heroImageAlt"}]

\* The front-matter fields an author may add to or remove from a document.
Fields == {"title", "description", "pubDate", "heroImage"}

\* a schema that also requires the hero image
RequiredFieldsWithHero == {"title", "description", "pubDate", "heroImage"}

\* The metadata every document must carry.
RequiredFields == {"title", "description", "pubDate"}

\* The generator's validation of one document's front matter.
SchemaAccepts(doc) == RequiredFields \subseteq doc

PageKey(slug) == "blog/" \o slug \o "/index.html"

SlugOf(key) == CHOOSE s \in Slugs : PageKey(s) = key

\* The static output: an index page and one page per post, written at `now`.
Render(docs, now) ==
    [k \in {"index.html"} \cup {PageKey(s) : s \in Slugs} |->
        [body |-> IF k = "index.html" THEN "<ul>"
                  ELSE IF "heroImage" \in docs[SlugOf(k)] THEN "<img><article>"
                  ELSE "<article>",
         mtime |-> now]]

\* npm run build: every document is validated; any rejected document fails the
\* build, which then writes nothing to dist/.
Build ==
    /\ clock < MaxClock
    /\ IF \A s \in Slugs : SchemaAccepts(content[s])
         THEN /\ buildStatus' = "ok"
              /\ local' = [local EXCEPT !.dist = Render(content, clock)]
         ELSE /\ buildStatus' = "failed"
              /\ local' = local
    /\ clock' = clock + 1
    /\ ops' = <<ops[2], "build">>
    /\ UNCHANGED <<content, remote>>
    /\ UNCHANGED <<infraVars, response>>

\* The author adds a front-matter field to a document.
AddField(s, f) ==
    /\ f \notin content[s]
    /\ content' = [content EXCEPT ![s] = @ \cup {f}]
    /\ ops' = <<ops[2], "edit">>
    /\ UNCHANGED <<buildStatus, local, remote, clock>>
    /\ UNCHANGED <<infraVars, response>>

\* The author removes a front-matter field from a document.
RemoveField(s, f) ==
    /\ f \in content[s]
    /\ content' = [content EXCEPT ![s] = @ \ {f}]
    /\ ops' = <<ops[2], "edit">>
    /\ UNCHANGED <<buildStatus, local, remote, clock>>
    /\ UNCHANGED <<infraVars, response>>

(***************************************************************************)
(* aws s3 sync                                                             *)
(***************************************************************************)
Size(body) == Len(body)

\* a comparison that ignores timestamps (--size-only)
NeedsUploadSizeOnly(dir, bucket, k) ==
    \/ k \notin DOMAIN bucket
    \/ Size(dir[k].body) # Size(bucket[k].body)

\* a copy of every file, whatever the bucket holds (aws s3 cp --recursive)
NeedsUploadAlways(dir, bucket, k) == TRUE

\* sync uploads a file that is missing in the bucket, differs in size, or is
\* newer than the bucket's object.
NeedsUpload(dir, bucket, k) ==
    \/ k \notin DOMAIN bucket
    \/ Size(dir[k].body) # Size(bucket[k].body)
    \/ dir[k].mtime > bucket[k].mtime

\* aws s3 sync <dir> s3://bucket [--delete], run at time `now`.
Sync(dir, bucket, delete, now) ==
    LET uploads == {k \in DOMAIN dir : NeedsUpload(dir, bucket, k)}
        deletes == IF delete THEN DOMAIN bucket \ DOMAIN dir ELSE {}
    IN [k \in (DOMAIN bucket \ deletes) \cup uploads |->
           IF k \in uploads THEN [body |-> dir[k].body, mtime |-> now] ELSE bucket[k]]

\* The operator knows the bucket from the stack outputs of a finished deploy;
\* commands are run one at a time, so none runs while the stack is torn down.
BucketKnown ==
    /\ outputs # NoOutputs
    /\ deployed["WebsiteBucket"] # NoResource
    /\ pc # "destroying"

\* Step 7: aws s3 sync ./public s3://BUCKET
SyncPublic ==
    /\ BucketKnown
    /\ clock < MaxClock
    /\ remote' = Sync(local.public, remote, FALSE, clock)
    /\ clock' = clock + 1
    /\ ops' = <<ops[2], "syncPublic">>
    /\ UNCHANGED <<content, buildStatus, local>>
    /\ UNCHANGED <<infraVars, response>>

\* aws s3 sync ./dist s3://BUCKET --delete (dist/ exists once a build succeeded)
SyncDist ==
    /\ BucketKnown
    /\ local.dist # EmptyDir
    /\ clock < MaxClock
    /\ remote' = Sync(local.dist, remote, TRUE, clock)
    /\ clock' = clock + 1
    /\ ops' = <<ops[2], "syncDist">>
    /\ UNCHANGED <<content, buildStatus, local>>
    /\ UNCHANGED <<infraVars, response>>

(***************************************************************************)
(* Specifications                                                          *)
(***************************************************************************)
\* The placeholder sites ./public may hold when the stack is deployed.
PublicSites ==
    {[k \in {"index.html"} |-> [body |-> "v1", mtime |-> 0]],
     [k \in {"index.html", "404.html"} |-> [body |-> "v1", mtime |-> 0]]}

\* Nothing is deployed and nothing is built.
Init ==
    /\ hostedZones \in {Zones, {z \in Zones : z.zoneName # domainName}}
    /\ pc = "idle"
    /\ template = NoTemplate
    /\ deployed = [r \in LogicalIds |-> NoResource]
    /\ pending = {}
    /\ records = {}
    /\ outputs = NoOutputs
    /\ applies = 0
    /\ content = Posts
    /\ buildStatus = "none"
    /\ \E p \in PublicSites : local = [public |-> p, dist |-> EmptyDir]
    /\ remote = EmptyDir
    /\ clock = 0
    /\ ops = <<"none", "none">>
    /\ response = NoResponse

Engine ==
    \/ RequestCertificate
    \/ IssueCertificate
    \/ CreateBucket
    \/ \E r \in LogicalIds : CreateResource(r)
    \/ \E r \in LogicalIds : CreateAliasRecord(r)
    \/ FinishApply

Next ==
    \/ CdkDeploy
    \/ Engine
    \/ Build
    \/ SyncPublic
    \/ SyncDist
    \/ Request
    \/ DirectRequest

Spec == Init /\ [][Next]_vars

\* The stack as one finished deploy leaves it.
Deployed ==
    /\ hostedZones = Zones
    /\ pc = "idle"
    /\ template = WebsiteStack(App(0), stackId, StackProps)
    /\ deployed = template
    /\ pending = {}
    /\ records = ValidationRecords(template["Certificate"])
                 \cup {[zone |-> template[r].zone, name |-> RecordFqdn(template[r]),
                        type |-> "A",
                        value |-> Attr("Distribution", "distributionDomainName")] :
                          r \in {"AliasRecord", "WwwAliasRecord"}}
    /\ outputs = [o \in DOMAIN CfnOutputs |->
                     IF CfnOutputs[o].ref = "" THEN CfnOutputs[o].attr
                     ELSE Attr(CfnOutputs[o].ref, CfnOutputs[o].attr)]
    /\ applies = 1

\* The directories and bucket states the sync commands are tried on: files named
\* by SyncKeys, with contents of equal and of different sizes.
SyncKeys == {"index.html", "404.html"}
InputBodies == {"v1", "v2", "v3+"}
InputDirs ==
    UNION {[K -> [body : InputBodies, mtime : 0..MaxMtime]] : K \in SUBSET SyncKeys}

\* The sync commands on every input: the stack is deployed, one of the two
\* directories and the bucket hold any files.
SyncInit ==
    /\ Deployed
    /\ content = Posts
    /\ buildStatus \in {"none", "ok"}
    /\ \E d \in InputDirs :
          IF buildStatus = "ok"
            THEN d # EmptyDir /\ local = [public |-> EmptyDir, dist |-> d]
            ELSE local = [public |-> d, dist |-> EmptyDir]
    /\ remote \in InputDirs
    /\ clock = MaxMtime
    /\ ops = <<"none", "none">>
    /\ response = NoResponse

SyncNext == SyncPublic \/ SyncDist

SyncSpec == SyncInit /\ [][SyncNext]_vars

\* The content build on every set of documents the author can write.
BuildNext ==
    \/ \E s \in Slugs, f \in Fields : AddField(s, f)
    \/ \E s \in Slugs, f \in Fields : RemoveField(s, f)
    \/ Build

BuildSpec == Init /\ [][BuildNext]_vars

(***************************************************************************)
(* Teardown of the stack                                                   *)
(***************************************************************************)
\* A resource the stack still manages (a retained one has left the stack).
Managed(r) == deployed[r] # NoResource /\ deployed[r].type # "Retained"

\* The live resources that refer to r: they are deleted before r.
Referrers(r) == {q \in LogicalIds : Managed(q) /\ r \in Refs(deployed[q])}

\* The operator tears the deployed stack down.
CdkDestroy ==
    /\ pc = "idle"
    /\ applies >= 1
    /\ pc' = "destroying"
    /\ UNCHANGED <<hostedZones, template, deployed, pending, records, outputs, applies>>
    /\ UNCHANGED <<siteVars, response>>

\* autoDeleteObjects: the bucket's custom resource, deleted first, empties the
\* bucket with the rights the bucket policy gives its role.
AutoDeleteObjects ==
    /\ pc = "destroying"
    /\ Managed("WebsiteBucket")
    /\ deployed["WebsiteBucket"].autoDeleteObjects
    /\ Granted("AutoDeleteObjectsRole", "any", "s3:DeleteObject*")
    /\ remote # EmptyDir
    /\ remote' = EmptyDir
    /\ ops' = <<ops[2], "autoDelete">>
    /\ UNCHANGED <<content, buildStatus, local, clock>>
    /\ UNCHANGED <<infraVars, response>>

\* The engine deletes a resource nothing refers to any more; an alias record
\* leaves the zone with it.  The bucket policy goes only after the bucket's
\* custom resource has done its work.
DeleteResource(r) ==
    /\ r \in LogicalIds \ {"WebsiteBucket"}
    /\ pc = "destroying"
    /\ Managed(r)
    /\ Referrers(r) = {}
    /\ (r = "WebsiteBucketPolicy" /\ deployed["WebsiteBucket"].autoDeleteObjects)
          => remote = EmptyDir
    /\ deployed' = [deployed EXCEPT ![r] = NoResource]
    /\ records' = IF deployed[r].type = "ARecord"
                    THEN {x \in records :
                            ~(x.zone = deployed[r].zone /\ x.type = "A"
                              /\ x.name = RecordFqdn(deployed[r]))}
                    ELSE records
    /\ UNCHANGED <<hostedZones, pc, template, pending, outputs, applies>>
    /\ UNCHANGED <<siteVars, response>>

\* The engine removes the bucket as its removal policy says: a retained bucket
\* leaves the stack and stays, with its objects; a bucket to destroy is
\* deleted when it is empty, and fails the teardown when it is not.
DeleteBucket ==
    /\ pc = "destroying"
    /\ Managed("WebsiteBucket")
    /\ Referrers("WebsiteBucket") = {}
    /\ IF deployed["WebsiteBucket"].removalPolicy # "DESTROY"
         THEN /\ deployed' = [deployed EXCEPT !["WebsiteBucket"].type = "Retained"]
              /\ pc' = pc
         ELSE IF remote # EmptyDir
           THEN /\ pc' = "delete_failed"
                /\ deployed' = deployed
           ELSE /\ deployed' = [deployed EXCEPT !["WebsiteBucket"] = NoResource]
                /\ pc' = pc
    /\ UNCHANGED <<hostedZones, template, pending, records, outputs, applies>>
    /\ UNCHANGED <<siteVars, response>>

\* The stack is gone once it manages no resource.
FinishDestroy ==
    /\ pc = "destroying"
    /\ \A r \in LogicalIds : ~Managed(r)
    /\ pc' = "destroyed"
    /\ outputs' = NoOutputs
    /\ UNCHANGED <<hostedZones, template, deployed, pending, records, applies>>
    /\ UNCHANGED <<siteVars, response>>

TeardownEngine ==
    \/ AutoDeleteObjects
    \/ \E r \in LogicalIds : DeleteResource(r)
    \/ DeleteBucket
    \/ FinishDestroy

\* Deploys, builds and syncs, then the teardown (requests change no state).
TeardownNext ==
    \/ CdkDeploy
    \/ Engine
    \/ Build
    \/ SyncPublic
    \/ SyncDist
    \/ CdkDestroy
    \/ TeardownEngine

\* The engine carries a teardown it has started through to its end.
TeardownSpec ==
    /\ Init
    /\ [][TeardownNext]_vars
    /\ WF_vars(AutoDeleteObjects)
    /\ WF_vars(\E r \in LogicalIds : DeleteResource(r))
    /\ WF_vars(DeleteBucket)
    /\ WF_vars(FinishDestroy)

(***************************************************************************)
(* Claims                                                                  *)
(***************************************************************************)
PolicyStatements ==
    IF deployed["WebsiteBucketPolicy"] = NoResource THEN {}
    ELSE deployed["WebsiteBucketPolicy"].statements

\* C1: the bucket is never readable directly by a public client.  In every
\* reachable state the bucket is not public, the only statement of the live
\* bucket policy that grants s3:GetObject names the CloudFront service for the
\* stack's distribution, no anonymous GetObject at the bucket endpoint succeeds
\* for any key, and a response that carried an object came through the CDN.
C1_BucketReadOnlyThroughCdn ==
    /\ deployed["WebsiteBucket"] # NoResource => ~deployed["WebsiteBucket"].publicReadAccess
    /\ \A st \in PolicyStatements :
          "s3:GetObject" \in st.actions =>
              st.principal = "cloudfront.amazonaws.com" /\ st.sourceArn = "Distribution"
    /\ \A k \in Keys : S3GetObject("anonymous", "none", k).status # 200
    /\ response.via = "s3" => response.result.status = 403
    /\ (response.via # "none" /\ response.result.status = 200) => response.via = "viewer"

\* An anonymous client asked the bucket for an object it holds and was refused,
\* while the distribution is granted the read.
C1_Witness ==
    /\ response.via = "s3"
    /\ response.key \in DOMAIN remote
    /\ response.result.status = 403
    /\ S3GetObject("cloudfront.amazonaws.com", "Distribution", response.key).status = 200

\* C2: applying the unchanged declaration again is a no-op.  Once an apply has
\* finished, no later step (a further cdk deploy included) starts the engine or
\* changes the live resources, the DNS records or the outputs.
C2_ReapplyIsNoOp ==
    [][applies >= 1 =>
          /\ pc' = "idle"
          /\ deployed' = deployed
          /\ pending' = pending
          /\ records' = records
          /\ outputs' = outputs]_vars

\* A second cdk deploy has finished on the deployed stack.
C2_Witness == applies = 2 /\ deployed = template /\ outputs # NoOutputs

TemplateIds(type) == {r \in DOMAIN template : template[r].type = type}

\* C3: the resource graph holds exactly one certificate, it covers chessbyte.com
\* and www.chessbyte.com, and it is validated by DNS records in the hosted zone
\* looked up by chessbyte.com: once issued, a validation record for each of the
\* two names is in that zone.
C3_OneCertificateBothNames ==
    template # NoTemplate =>
        /\ Cardinality(TemplateIds("Certificate")) = 1
        /\ \A c \in TemplateIds("Certificate") :
              /\ {"chessbyte.com", "www.chessbyte.com"} \subseteq CertificateNames(template[c])
              /\ template[c].validation.method = "DNS"
              /\ \E z \in hostedZones :
                    z.zoneName = "chessbyte.com" /\ template[c].validation.hostedZone = z.id
              /\ deployed[c] # NoResource =>
                    /\ deployed[c] = template[c]
                    /\ \A n \in {"chessbyte.com", "www.chessbyte.com"} :
                          \E rec \in records :
                              /\ rec.zone = template[c].validation.hostedZone
                              /\ rec.type = "CNAME"
                              /\ rec.name = "_acm." \o n

\* The certificate has been issued.
C3_Witness == deployed["Certificate"] # NoResource /\ "Certificate" \notin pending

AliasRecords == {rec \in records : rec.type = "A"}

\* C4: the graph declares exactly two alias records and one distribution, both
\* records target that distribution, and in every state after an apply the zone
\* of chessbyte.com holds exactly two alias records, one named chessbyte.com and
\* one named www.chessbyte.com, both with the distribution's endpoint as target.
C4_TwoAliasesOneDistribution ==
    /\ template # NoTemplate =>
          /\ Cardinality(TemplateIds("ARecord")) = 2
          /\ Cardinality(TemplateIds("Distribution")) = 1
          /\ \A r \in TemplateIds("ARecord") :
                template[r].target.alias \in TemplateIds("Distribution")
    /\ applies >= 1 =>
          /\ Cardinality(AliasRecords) = 2
          /\ {rec.name : rec \in AliasRecords} = {"chessbyte.com", "www.chessbyte.com"}
          /\ \A rec \in AliasRecords :
                /\ rec.value = outputs["DistributionDomain"]
                /\ \E z \in hostedZones : z.zoneName = "chessbyte.com" /\ rec.zone = z.id

\* An apply has finished and both names resolve to the distribution.
C4_Witness ==
    /\ applies >= 1
    /\ \A h \in Hosts : ViewerRequest("https", h, "/").status # 0

SyncCommands == {"syncPublic", "syncDist"}

SourceDir(c) == IF c = "syncDist" THEN local.dist ELSE local.public

Mirror(dir, bucket) ==
    /\ DOMAIN bucket = DOMAIN dir
    /\ \A k \in DOMAIN dir : bucket[k].body = dir[k].body

\* C6 as stated: after either documented sync command completes, the bucket
\* holds exactly the files of the local directory, with their local contents.
C6_MirrorAfterEverySync ==
    \A c \in SyncCommands : ops[2] = c => Mirror(SourceDir(c), remote)

\* C6 as amended: after a sync every local file is in the bucket with the local
\* file's size; a file that was missing, of another size or newer than the
\* bucket's object has its local content, and any other object is left as it
\* was.  With --delete (./dist) the bucket keeps no key that the directory
\* lacks; without it (./public) every such object stays unchanged.
C6_SyncUploadsChangedFiles ==
    [][\A c \in SyncCommands :
          (ops'[2] = c /\ clock' = clock + 1) =>
              LET dir == SourceDir(c)
              IN /\ \A k \in DOMAIN dir :
                        /\ k \in DOMAIN remote'
                        /\ Len(remote'[k].body) = Len(dir[k].body)
                        /\ IF \/ k \notin DOMAIN remote
                              \/ Len(remote[k].body) # Len(dir[k].body)
                              \/ remote[k].mtime < dir[k].mtime
                             THEN remote'[k].body = dir[k].body
                             ELSE remote'[k] = remote[k]
                 /\ IF c = "syncDist"
                      THEN DOMAIN remote' = DOMAIN dir
                      ELSE /\ DOMAIN remote' = DOMAIN remote \cup DOMAIN dir
                           /\ \A k \in DOMAIN remote \ DOMAIN dir : remote'[k] = remote[k]]_vars

\* A sync has completed and the bucket is not a mirror of the directory: it
\* kept an object the directory lacks, or an object of equal size and other
\* content.
C6_Witness ==
    /\ ops[2] \in SyncCommands
    /\ ~Mirror(SourceDir(ops[2]), remote)
    /\ DOMAIN SourceDir(ops[2]) \subseteq DOMAIN remote

RECURSIVE ReachableFrom(_, _, _)
ReachableFrom(t, S, n) ==
    IF n = 0 THEN S
    ELSE ReachableFrom(t, S \cup UNION {Refs(t[r]) : r \in S}, n - 1)

Acyclic(t) ==
    \A r \in DOMAIN t :
        /\ Refs(t[r]) \subseteq DOMAIN t
        /\ r \notin ReachableFrom(t, Refs(t[r]), Cardinality(DOMAIN t))

Live(r) == deployed[r] # NoResource

\* C7: the dependency graph of the declaration is acyclic, and at every point
\* of an apply a resource that exists or is being created has all the resources
\* it depends on: the distribution exists only with an issued certificate and
\* the bucket, each alias record (and its DNS record) only with the
\* distribution, the bucket policy only with bucket and distribution, and the
\* outputs only with the bucket and the distribution.
C7_DependenciesFirst ==
    /\ template # NoTemplate => Acyclic(template)
    /\ Live("Distribution") =>
          Live("Certificate") /\ "Certificate" \notin pending /\ Live("WebsiteBucket")
    /\ Live("AliasRecord") => Live("Distribution")
    /\ Live("WwwAliasRecord") => Live("Distribution")
    /\ AliasRecords # {} => Live("Distribution")
    /\ Live("WebsiteBucketPolicy") => Live("WebsiteBucket") /\ Live("Distribution")
    /\ outputs # NoOutputs => Live("WebsiteBucket") /\ Live("Distribution")

\* Mid-apply: the distribution exists, after its certificate and bucket, and
\* no alias record has been created yet.
C7_Witness ==
    /\ pc = "applying"
    /\ Live("Distribution")
    /\ ~Live("AliasRecord")
    /\ ~Live("WwwAliasRecord")

\* C8: every plaintext request the distribution answers, for either domain
\* name and any path, is answered with a redirect to the same URL over HTTPS
\* and carries no object content.
C8_PlaintextIsRedirected ==
    /\ (response.via = "viewer" /\ response.proto = "http"
          /\ response.result.status # 0) =>
              /\ response.result.status = 301
              /\ response.result.location = "https://" \o response.host \o response.path
              /\ response.result.body = ""
    /\ Live("Distribution") =>
          \A h \in Hosts, p \in Paths :
              LET r == DistributionServe(deployed["Distribution"], "http", h, p)
              IN r.status = 301 /\ r.body = ""

\* A plaintext request for a page the bucket holds was redirected, while the
\* same request over HTTPS is served the page.
C8_Witness ==
    /\ response.via = "viewer"
    /\ response.proto = "http"
    /\ response.result.status = 301
    /\ ViewerRequest("https", response.host, response.path).status = 200

RequestedKey(path) == IF path = "/" THEN "index.html" ELSE KeyOf(path)

\* C9: a request for a path with no file in the bucket reaches the viewer as
\* the custom page /404.html with status 404 (stated for a bucket that holds
\* 404.html, so the page itself is there to serve).
C9_MissingFileServes404Page ==
    (/\ response.via = "viewer"
     /\ response.proto = "https"
     /\ response.result.status # 0
     /\ RequestedKey(response.path) \notin DOMAIN remote
     /\ "404.html" \in DOMAIN remote) =>
        /\ response.result.status = 404
        /\ response.result.body = remote["404.html"].body

\* C10: the content build fails whenever a document lacks title, description
\* or publish date, and then writes no output; it succeeds when every document
\* has all three, whether or not a hero image is given.
C10_BuildFailsOnMissingField ==
    [][(ops'[2] = "build" /\ clock' = clock + 1) =>
          IF \A s \in Slugs : {"title", "description", "pubDate"} \subseteq content[s]
            THEN buildStatus' = "ok" /\ local'.dist # EmptyDir
            ELSE buildStatus' = "failed" /\ local'.dist = local.dist]_vars

\* A build has just failed on a document without a publish date, and earlier
\* builds of documents without hero image had succeeded.
C10_Witness ==
    /\ ops[2] = "build"
    /\ buildStatus = "failed"
    /\ \E s \in Slugs : "pubDate" \notin content[s]
    /\ local.dist # EmptyDir
    /\ \E k \in DOMAIN local.dist : local.dist[k].body = "<article>"

\* C11: the bucket's deletion policy allows teardown from every reachable
\* state.  Whenever the deployed stack is being torn down, whatever syncs ran
\* before and whatever the bucket holds, the teardown eventually ends with the
\* bucket deleted, none of its objects left, and no bucket retained.
C11_TeardownRemovesBucket ==
    (pc = "destroying") ~>
        (/\ pc = "destroyed"
         /\ deployed["WebsiteBucket"] = NoResource
         /\ remote = EmptyDir)

\* A teardown has ended with the bucket deleted, after the objects a sync had
\* put in it were removed.
C11_Witness ==
    /\ pc = "destroyed"
    /\ deployed["WebsiteBucket"] = NoResource
    /\ remote = EmptyDir
    /\ ops[1] \in SyncCommands
    /\ ops[2] = "autoDelete"

====
